---- MODULE Spec2Model ----
(***************************************************************************)
(* License activation / validation service (src/app.py, src/models.py).   *)
(*                                                                         *)
(* The persistent store (licenses, devices, audit_logs tables) is shared   *)
(* by the request handlers.  Each handler is run by a worker; a handler    *)
(* is split at its database round trips (a query, or a commit), so that    *)
(* two requests interleave exactly where the store lets them.  A query     *)
(* sees what has been committed when it runs; a commit writes the          *)
(* attributes the handler has set, whatever the row holds by then.  Time   *)
(* is counted in hours.                                                    *)
(***************************************************************************)
EXTENDS Integers, Sequences, FiniteSets, TLC

\* ---------------------------------------------------------------- bounds
MaxRequests == 5
TickStep == 18
MaxTime == 38

Workers == {"w1", "w2"}
Keys == {"ABC123", "XYZ999"}
DeviceIds == {"dev-1"}
Durations == {1}

\* ------------------------------------------------------------- constants
JWT_ACCESS_TOKEN_EXPIRES == 24
HoursPerDay == 24

\* An optional column: <<>> is NULL, <<x>> holds x.
None == <<>>
Some(x) == <<x>>

VARIABLES
    now,        \* datetime.utcnow(), in hours
    licenses,   \* table licenses: row i has primary key i
    devices,    \* table devices: row j has primary key j
    audit,      \* table audit_logs
    pc,         \* per worker: where its current request stands
    req,        \* per worker: the request and what its session has loaded
    resp,       \* the response most recently sent
    issued,     \* tokens returned to clients so far
    served,     \* requests received so far
    firebase_service  \* the notification sender (firebase_service.py:241)

vars == <<now, licenses, devices, audit, pc, req, resp, issued, served, firebase_service>>

\* ------------------------------------------------------------ the tables
License(key, status, expires_at) ==
    [key |-> key, status |-> status, expires_at |-> expires_at, revoked_at |-> None]

Device(device_id, license_id) ==
    [device_id |-> device_id, license_id |-> license_id, last_validated |-> None]

AuditLog(action, license_id, device_id) ==
    [action |-> action, license_id |-> license_id, device_id |-> device_id]

\* License.query.filter_by(key=key): the ids of the rows with that key.
LicensesByKey(key) == {i \in DOMAIN licenses : licenses[i].key = key}

\* Device.query.filter_by(device_id=d): the ids of the rows with that device_id.
\* The column is indexed but not unique, so there may be several.
DevicesById(d) == {j \in DOMAIN devices : devices[j].device_id = d}

\* ---------------------------------------------------------------- tokens
SecretKey == "JWT_SECRET_KEY"

\* jwt.encode({'user_id', 'license_id', 'exp'}, key, 'HS256')
JwtEncode(user_id, license_id, exp, key) ==
    [user_id |-> user_id, license_id |-> license_id, exp |-> exp, sig |-> key]

\* IssueToken with the validity window left out of exp.
IssueTokenNoWindow(device_id, license_id, t) ==
    JwtEncode(device_id, license_id, t, SecretKey)

\* The token activate issues at time t.
IssueToken(device_id, license_id, t) ==
    JwtEncode(device_id, license_id, t + JWT_ACCESS_TOKEN_EXPIRES, SecretKey)

\* JwtDecode without the signature check (verify_signature off).
JwtDecodeNoVerify(token, key, t) ==
    IF token.exp < t THEN {[ok |-> FALSE, error |-> "Token has expired"]}
    ELSE {[ok |-> TRUE, user_id |-> token.user_id, license_id |-> token.license_id]}

\* jwt.decode(token, key, ['HS256']): the set of possible outcomes.  The signature
\* is checked first, then exp; at exp = t the outcome depends on the PyJWT release.
JwtDecode(token, key, t) ==
    IF token.sig # key THEN {[ok |-> FALSE, error |-> "Token is invalid"]}
    ELSE IF token.exp < t THEN {[ok |-> FALSE, error |-> "Token has expired"]}
    ELSE IF token.exp = t
         THEN {[ok |-> FALSE, error |-> "Token has expired"],
               [ok |-> TRUE, user_id |-> token.user_id, license_id |-> token.license_id]}
    ELSE {[ok |-> TRUE, user_id |-> token.user_id, license_id |-> token.license_id]}

\* jwt_required: the Authorization header is None or <<token>>.
JwtRequired(header, t) ==
    IF header = None THEN {[ok |-> FALSE, error |-> "Token is missing"]}
    ELSE JwtDecode(header[1], SecretKey, t)

\* ------------------------------------------------------------- responses
Error(op, code, error, status) ==
    [op |-> op, code |-> code, error |-> error, status |-> status,
     token |-> None, valid |-> FALSE, days_remaining |-> None]

Activated(token, status) ==
    [op |-> "activate", code |-> 200, error |-> "", status |-> Some(status),
     token |-> Some(token), valid |-> FALSE, days_remaining |-> None]

Valid(status, days) ==
    [op |-> "validate", code |-> 200, error |-> "", status |-> Some(status),
     token |-> None, valid |-> TRUE, days_remaining |-> days]

Created ==
    [op |-> "create", code |-> 302, error |-> "", status |-> None,
     token |-> None, valid |-> FALSE, days_remaining |-> None]

NoResponse ==
    [op |-> "", code |-> 0, error |-> "", status |-> None,
     token |-> None, valid |-> FALSE, days_remaining |-> None]

NoRequest == [op |-> ""]

\* FirebaseService.__init__ (firebase_service.py:15-49): app is set when the SDK has
\* been initialised, None (FALSE) when the credentials are missing or initialisation
\* raised.  call and returned record the latest call made on the sender.
FirebaseService(app) == [app |-> app, call |-> None, returned |-> ""]

\* The check both handlers make: expires_at is set and earlier than now.
IsOverdue(lic, t) == lic.expires_at # None /\ lic.expires_at[1] < t

\* A worker finishes its request with response r; its session is torn down.
Finish(w, r) ==
    /\ pc' = [pc EXCEPT ![w] = "idle"]
    /\ req' = [req EXCEPT ![w] = NoRequest]
    /\ resp' = r
    /\ UNCHANGED firebase_service

\* A worker goes on to the next step of its request, its session holding q.
Goto(w, label, q) ==
    /\ pc' = [pc EXCEPT ![w] = label]
    /\ req' = [req EXCEPT ![w] = q]
    /\ UNCHANGED <<resp, firebase_service>>

Init ==
    /\ now = 0
    /\ licenses = <<>>
    /\ devices = <<>>
    /\ audit = <<>>
    /\ pc = [w \in Workers |-> "idle"]
    /\ req = [w \in Workers |-> NoRequest]
    /\ resp = NoResponse
    /\ issued = {}
    /\ served = 0
    /\ firebase_service = FirebaseService(FALSE)

\* ------------------------------------------------- POST /activate (app.py)
\* ActivateCheck with the expiry test made before the status test.
ActivateCheckExpiryFirst(lic, t) ==
    IF IsOverdue(lic, t) THEN "expired"
    ELSE IF lic.status # "active" THEN "not_active"
    ELSE "ok"

\* Lines 93-99: what activate decides from the license row it has loaded.
ActivateCheck(lic, t) ==
    IF lic.status # "active" THEN "not_active"
    ELSE IF IsOverdue(lic, t) THEN "expired"
    ELSE "ok"

\* The activate request a worker holds: the device, the license row its session has
\* loaded, and (history, for stating properties) what held when the request arrived:
\* the licenses the device was bound to, and whether a token had already been
\* returned for this device and license.
ActivateRequest(dev, i) ==
    [op |-> "activate", dev |-> dev, lic |-> i,
     bound |-> {devices[j].license_id : j \in DevicesById(dev)},
     activated |-> \E t \in issued : t.user_id = dev /\ t.license_id = i]

\* Lines 89-96: load the license by key, check its status and its expiry.
ActLookupLicense(w, key, dev) ==
    /\ pc[w] = "idle"
    /\ served < MaxRequests
    /\ served' = served + 1
    /\ UNCHANGED <<now, licenses, devices, audit, issued>>
    /\ IF LicensesByKey(key) = {}
       THEN Finish(w, Error("activate", 404, "Invalid license key", None))
       ELSE \E i \in LicensesByKey(key) :
            CASE ActivateCheck(licenses[i], now) = "not_active" ->
                    Finish(w, Error("activate", 400, "License is not active", None))
              [] ActivateCheck(licenses[i], now) = "expired" ->
                    Goto(w, "act_expire", ActivateRequest(dev, i))
              [] OTHER ->
                    Goto(w, "act_device", ActivateRequest(dev, i))

\* The UPDATE a lazy expiry commits: the row's status becomes 'expired'.
ExpireRow(i) == [licenses EXCEPT ![i].status = "expired"]

\* Lines 97-99: persist status = 'expired', answer 400.
ActExpire(w) ==
    /\ UNCHANGED served
    /\ pc[w] = "act_expire"
    /\ licenses' = ExpireRow(req[w].lic)
    /\ Finish(w, Error("activate", 400, "License has expired", None))
    /\ UNCHANGED <<now, devices, audit, issued>>

\* Lines 101-116: look the device up; an existing row either re-activates or conflicts.
\* .first() without ORDER BY returns any one of the matching rows.
ActLookupDevice(w) ==
    /\ UNCHANGED served
    /\ pc[w] = "act_device"
    /\ UNCHANGED <<now, licenses, devices, audit>>
    /\ IF DevicesById(req[w].dev) = {}
       THEN Goto(w, "act_insert", req[w]) /\ UNCHANGED issued
       ELSE \E j \in DevicesById(req[w].dev) :
            IF devices[j].license_id = req[w].lic
            THEN /\ Finish(w, Activated(IssueToken(req[w].dev, req[w].lic, now), "active"))
                 /\ issued' = issued \cup {IssueToken(req[w].dev, req[w].lic, now)}
            ELSE /\ Finish(w, Error("activate", 400,
                                    "Device already registered with different license", None))
                 /\ UNCHANGED issued

\* BindDevice as an upsert: an existing row of the device is overwritten.
BindDeviceUpsert(dev, lic) ==
    IF DevicesById(dev) = {} THEN Append(devices, Device(dev, lic))
    ELSE [j \in DOMAIN devices |->
            IF devices[j].device_id = dev THEN Device(dev, lic) ELSE devices[j]]

\* Lines 118-124: the INSERT into devices.
BindDevice(dev, lic) == Append(devices, Device(dev, lic))

\* Lines 118-133: INSERT the device row and its audit row, commit.
ActInsert(w) ==
    /\ UNCHANGED served
    /\ pc[w] = "act_insert"
    /\ devices' = BindDevice(req[w].dev, req[w].lic)
    /\ audit' = Append(audit, AuditLog("license_activated", req[w].lic, req[w].dev))
    /\ Goto(w, "act_respond", req[w])
    /\ UNCHANGED <<now, licenses, issued>>

\* Lines 135-146: issue the token; license_obj is reloaded after the commit.
ActRespond(w) ==
    /\ UNCHANGED served
    /\ pc[w] = "act_respond"
    /\ Finish(w, Activated(IssueToken(req[w].dev, req[w].lic, now), licenses[req[w].lic].status))
    /\ issued' = issued \cup {IssueToken(req[w].dev, req[w].lic, now)}
    /\ UNCHANGED <<now, licenses, devices, audit>>

\* ------------------------------------------------- POST /validate (app.py)
\* A string that is no JWT: jwt.decode raises DecodeError, an InvalidTokenError.  It
\* carries no usable claims; here it reads as a token nothing has signed.
Malformed == JwtEncode("", 0, 0, "")

\* What a client can send: no header, a token it was given, one signed with another
\* key, or a malformed one.
Headers ==
    {None} \cup {Some(t) : t \in issued}
           \cup {Some(JwtEncode(d, 1, MaxTime + 1, "forged")) : d \in DeviceIds}
           \cup {Some(Malformed)}

\* Lines 48-64 and 161-163: verify the token, look the device up.
ValLookupDevice(w, header) ==
    /\ pc[w] = "idle"
    /\ served < MaxRequests
    /\ served' = served + 1
    /\ UNCHANGED <<now, licenses, devices, audit, issued>>
    /\ \E v \in JwtRequired(header, now) :
       IF ~v.ok
       THEN Finish(w, Error("validate", 401, v.error, None))
       ELSE IF DevicesById(v.user_id) = {}
       THEN Finish(w, Error("validate", 404, "Device not found", None))
       ELSE \E j \in DevicesById(v.user_id) :
            Goto(w, "val_license", [op |-> "validate", row |-> j, lic |-> devices[j].license_id])

\* ValidateCheck with the expiry test made before the status test.
ValidateCheckExpiryFirst(lic, t) ==
    IF IsOverdue(lic, t) THEN "expired"
    ELSE IF lic.status # "active" THEN "not_active"
    ELSE "ok"

\* Lines 169-175: what validate decides from the license row it has loaded.
ValidateCheck(lic, t) ==
    IF lic.status # "active" THEN "not_active"
    ELSE IF IsOverdue(lic, t) THEN "expired"
    ELSE "ok"

\* Lines 165-172: load the device's license, check its status and its expiry.
ValLookupLicense(w) ==
    /\ UNCHANGED served
    /\ pc[w] = "val_license"
    /\ UNCHANGED <<now, licenses, devices, audit, issued>>
    /\ IF req[w].lic \notin DOMAIN licenses
       THEN Finish(w, Error("validate", 404, "License not found", None))
       ELSE CASE ValidateCheck(licenses[req[w].lic], now) = "not_active" ->
                    Finish(w, Error("validate", 400, "License is not active",
                                    Some(licenses[req[w].lic].status)))
              [] ValidateCheck(licenses[req[w].lic], now) = "expired" ->
                    Goto(w, "val_expire", req[w])
              [] OTHER -> Goto(w, "val_touch", req[w])

\* Lines 173-175: persist status = 'expired', answer 400.
ValExpire(w) ==
    /\ UNCHANGED served
    /\ pc[w] = "val_expire"
    /\ licenses' = ExpireRow(req[w].lic)
    /\ Finish(w, Error("validate", 400, "License has expired", Some("expired")))
    /\ UNCHANGED <<now, devices, audit, issued>>

\* TouchDevice that records only the first validation.
TouchDeviceOnce(j, t) ==
    IF devices[j].last_validated = None
    THEN [devices EXCEPT ![j].last_validated = Some(t)]
    ELSE devices

\* Line 177: device.last_validated = utcnow().
TouchDevice(j, t) == [devices EXCEPT ![j].last_validated = Some(t)]

\* Lines 177-178: touch the device row, commit.
ValTouch(w) ==
    /\ UNCHANGED served
    /\ pc[w] = "val_touch"
    /\ devices' = TouchDevice(req[w].row, now)
    /\ Goto(w, "val_respond", req[w])
    /\ UNCHANGED <<now, licenses, audit, issued>>

\* DaysRemaining counting a started day as a whole one.
DaysRemainingRoundedUp(lic, t) ==
    IF lic.expires_at = None THEN None
    ELSE Some((lic.expires_at[1] - t + HoursPerDay - 1) \div HoursPerDay)

\* (expires_at - utcnow()).days: timedelta.days is the floor of the difference in days.
DaysRemaining(lic, t) ==
    IF lic.expires_at = None THEN None
    ELSE Some((lic.expires_at[1] - t) \div HoursPerDay)

\* Lines 180-185: the answer; license_obj is reloaded after the commit.
ValRespond(w) ==
    /\ UNCHANGED served
    /\ pc[w] = "val_respond"
    /\ Finish(w, Valid(licenses[req[w].lic].status, DaysRemaining(licenses[req[w].lic], now)))
    /\ UNCHANGED <<now, licenses, devices, audit, issued>>

\* ------------------------------------- POST /admin/licenses/create (app.py)
\* Lines 238-249: refuse an existing key, compute expires_at.
CreateCheck(w, key, duration_days) ==
    /\ pc[w] = "idle"
    /\ served < MaxRequests
    /\ served' = served + 1
    /\ IF LicensesByKey(key) # {}
       THEN Finish(w, Error("create", 302, "License key already exists", None))
       ELSE Goto(w, "create_insert", [op |-> "create", key |-> key,
                                      expires_at |-> now + duration_days * HoursPerDay])
    /\ UNCHANGED <<now, licenses, devices, audit, issued>>

\* Lines 250-260: INSERT and commit; licenses.key is unique, so a key that appeared
\* in the meantime makes the commit raise, which the handler answers with 500.
CreateInsert(w) ==
    /\ UNCHANGED served
    /\ pc[w] = "create_insert"
    /\ IF LicensesByKey(req[w].key) # {}
       THEN /\ Finish(w, Error("create", 500, "Internal server error", None))
            /\ UNCHANGED licenses
       ELSE /\ licenses' = Append(licenses, License(req[w].key, "active", Some(req[w].expires_at)))
            /\ Finish(w, Created)
    /\ UNCHANGED <<now, devices, audit, issued>>

\* ------------------------------------------------------- revoke (spec 4.2)
\* An admin revokes a license: status = revoked, revoked_at = now; no guard.
Revoke(i) ==
    /\ i \in DOMAIN licenses
    /\ served < MaxRequests
    /\ served' = served + 1
    /\ licenses' = [licenses EXCEPT ![i].status = "revoked", ![i].revoked_at = Some(now)]
    /\ UNCHANGED <<now, devices, audit, pc, req, resp, issued, firebase_service>>

\* ------------------------------------------------------------------ clock
Tick ==
    /\ now + TickStep <= MaxTime
    /\ now' = now + TickStep
    /\ UNCHANGED <<licenses, devices, audit, pc, req, resp, issued, served, firebase_service>>

Activate(w) ==
    \/ \E key \in Keys, dev \in DeviceIds : ActLookupLicense(w, key, dev)
    \/ ActExpire(w)
    \/ ActLookupDevice(w)
    \/ ActInsert(w)
    \/ ActRespond(w)

Validate(w) ==
    \/ \E header \in Headers : ValLookupDevice(w, header)
    \/ ValLookupLicense(w)
    \/ ValExpire(w)
    \/ ValTouch(w)
    \/ ValRespond(w)

Create(w) ==
    \/ \E key \in Keys, d \in Durations : CreateCheck(w, key, d)
    \/ CreateInsert(w)

Next ==
    \/ \E w \in Workers : Activate(w)
    \/ \E w \in Workers : Validate(w)
    \/ \E w \in Workers : Create(w)
    \/ \E i \in DOMAIN licenses : Revoke(i)
    \/ Tick

Spec == Init /\ [][Next]_vars

\* ------------------------------------------------- a store that can fail
\* A failed commit that keeps the device row the session had flushed.
RollbackKeepsFlushed(w) ==
    IF pc[w] = "act_insert"
    THEN Append(devices, Device(req[w].dev, req[w].lic))
    ELSE devices

\* Line 149, db.session.rollback(), and the removal of the session when the request
\* ends: what the session had pending is discarded, the devices table is as it was.
Rollback(w) == devices

\* Lines 148-150 and 187-188: db.session.commit() raises; nothing of the transaction
\* is written and the handler answers 500.
CommitFails(w, op) ==
    /\ devices' = Rollback(w)
    /\ UNCHANGED <<now, licenses, audit, issued, served>>
    /\ Finish(w, Error(op, 500, "Internal server error", None))

\* The commits of activate: line 98 (lazy expiry) and line 133 (device and audit rows).
ActCommitFails(w) ==
    /\ pc[w] \in {"act_expire", "act_insert"}
    /\ CommitFails(w, "activate")

\* The commits of validate: line 174 (lazy expiry) and line 178 (last_validated).
ValCommitFails(w) ==
    /\ pc[w] \in {"val_expire", "val_touch"}
    /\ CommitFails(w, "validate")

\* The commit of create: line 252.
CreateCommitFails(w) ==
    /\ pc[w] = "create_insert"
    /\ CommitFails(w, "create")

NextFaults ==
    \/ Next
    \/ \E w \in Workers : ActCommitFails(w)
    \/ \E w \in Workers : ValCommitFails(w)
    \/ \E w \in Workers : CreateCommitFails(w)

\* The service over a store whose commits may fail.
SpecFaults == Init /\ [][NextFaults]_vars

\* --------------------------------------- the answer of validate, by itself
\* expires_at of a license row: NULL (the column is nullable), or an hour up to seven
\* days after the latest hour at which it can have been created.
ExpiryTimes == {None} \cup {Some(x) : x \in 0 .. (7 * HoursPerDay + MaxTime)}

\* A validate call about to answer (lines 180-185): its checks have passed and its
\* write of last_validated is committed, for a device bound to a license with any
\* expires_at.
InitDays ==
    /\ now = 0
    /\ \E x \in ExpiryTimes : licenses = <<License("ABC123", "active", x)>>
    /\ devices = <<[Device("dev-1", 1) EXCEPT !.last_validated = Some(0)]>>
    /\ audit = <<AuditLog("license_activated", 1, "dev-1")>>
    /\ \E v \in Workers :
          /\ pc = [w \in Workers |-> IF w = v THEN "val_respond" ELSE "idle"]
          /\ req = [w \in Workers |->
                      IF w = v THEN [op |-> "validate", row |-> 1, lic |-> 1] ELSE NoRequest]
    /\ resp = Activated(IssueToken("dev-1", 1, 0), "active")
    /\ issued = {IssueToken("dev-1", 1, 0)}
    /\ served = 2
    /\ firebase_service = FirebaseService(FALSE)

NextDays ==
    \/ \E w \in Workers : ValRespond(w)
    \/ Tick

SpecDays == InitDays /\ [][NextDays]_vars

\* ------------------------------------ notifications (firebase_service.py)
\* What messaging.send (or building the message) does once the sender is initialised:
\* it delivers, raises UnregisteredError, or raises something else.
SendOutcomes == {"sent", "UnregisteredError", "Exception"}

\* The push addresses a devices row can hold (models.py:75): NULL or a token.
FcmTokens == {None, Some("fcm-1")}

\* A devices row together with its fcm_token column.
DeviceWithToken(device_id, license_id, fcm_token) ==
    [device_id |-> device_id, license_id |-> license_id, last_validated |-> None,
     fcm_token |-> fcm_token]

\* send_notification_to_device without its "except Exception" clause.
SendNotificationToDeviceUncaught(app, outcome) ==
    IF ~app THEN "False"
    ELSE IF outcome = "sent" THEN "True"
    ELSE IF outcome = "UnregisteredError" THEN "False"
    ELSE "raised"

\* Lines 51-90: what send_notification_to_device returns.
SendNotificationToDevice(app, outcome) ==
    IF ~app THEN "False"
    ELSE IF outcome = "sent" THEN "True"
    ELSE IF outcome = "UnregisteredError" THEN "False"
    ELSE "False"

\* The sender after a call of fn that used push address fcm_token (None: no address
\* was found, nothing was sent) and returned r.
Called(fn, fcm_token, outcome, r) ==
    [firebase_service EXCEPT
        !.call = Some([fn |-> fn, fcm_token |-> fcm_token, send |-> outcome]),
        !.returned = r]

\* Lines 51-90: a direct call with a push address.
SendToDevice(fcm_token, outcome) ==
    /\ firebase_service' = Called("send_notification_to_device", Some(fcm_token), outcome,
                                  SendNotificationToDevice(firebase_service.app, outcome))
    /\ UNCHANGED <<now, licenses, devices, audit, pc, req, resp, issued, served>>

\* Lines 163-179 (and 192-209, 222-238): look the device up, give up without a row
\* or without a push address, else send.
NotifyDevice(fn, device_id, outcome) ==
    /\ IF DevicesById(device_id) = {}
       THEN firebase_service' = Called(fn, None, "", "False")
       ELSE \E j \in DevicesById(device_id) :
            IF devices[j].fcm_token = None
            THEN firebase_service' = Called(fn, None, "", "False")
            ELSE firebase_service' =
                    Called(fn, devices[j].fcm_token, outcome,
                           SendNotificationToDevice(firebase_service.app, outcome))
    /\ UNCHANGED <<now, licenses, devices, audit, pc, req, resp, issued, served>>

SendLicenseRevocationNotification(device_id, outcome) ==
    NotifyDevice("send_license_revocation_notification", device_id, outcome)

SendLicenseExpiryNotification(device_id, outcome) ==
    NotifyDevice("send_license_expiry_notification", device_id, outcome)

SendAdminNotification(device_id, outcome) ==
    NotifyDevice("send_admin_notification", device_id, outcome)

\* The sender initialised or not, and a devices table of up to two rows with or
\* without push addresses.
InitNotify ==
    /\ now = 0
    /\ licenses = <<License("ABC123", "active", Some(HoursPerDay))>>
    /\ \E n \in 0 .. 2 : \E f \in [1 .. n -> FcmTokens] :
          /\ devices = [j \in 1 .. n |-> DeviceWithToken("dev-1", 1, f[j])]
          /\ audit = [j \in 1 .. n |-> AuditLog("license_activated", 1, "dev-1")]
    /\ pc = [w \in Workers |-> "idle"]
    /\ req = [w \in Workers |-> NoRequest]
    /\ resp = NoResponse
    /\ issued = {}
    /\ served = 0
    /\ \E app \in BOOLEAN : firebase_service = FirebaseService(app)

NextNotify ==
    \/ \E o \in SendOutcomes : SendToDevice("fcm-1", o)
    \/ \E d \in DeviceIds, o \in SendOutcomes : SendLicenseRevocationNotification(d, o)
    \/ \E d \in DeviceIds, o \in SendOutcomes : SendLicenseExpiryNotification(d, o)
    \/ \E d \in DeviceIds, o \in SendOutcomes : SendAdminNotification(d, o)

SpecNotify == InitNotify /\ [][NextNotify]_vars

\* ================================================================ claims

\* C1: A device is never activated under two different licenses: no two tokens
\* returned by successful activate calls name the same device and different
\* licenses, whatever the interleaving of the calls.
C1_OneLicensePerDevice ==
    \A t1 \in issued, t2 \in issued :
        t1.user_id = t2.user_id => t1.license_id = t2.license_id

\* C2: The devices table holds at most one row per device identifier.
C2_OneRecordPerDevice ==
    \A d \in DeviceIds : Cardinality(DevicesById(d)) <= 1

\* The licenses device d is bound to: one per row of the devices table for d.
BoundLicenses(d) == {devices[j].license_id : j \in DevicesById(d)}

\* C3: An overdue license is never treated as active.  An activate call that finds
\* its license overdue does not go on to bind or re-activate the device, and a
\* validate call whose expiry check runs while a license its device is bound to is
\* overdue does not go on to answer valid = true.
C3_OverdueNeverActive ==
    [][\A w \in Workers :
        /\ \A key \in Keys, dev \in DeviceIds :
              (/\ ActLookupLicense(w, key, dev)
               /\ \E i \in LicensesByKey(key) : IsOverdue(licenses[i], now))
              => pc'[w] # "act_device"
        /\ (/\ ValLookupLicense(w)
            /\ \E i \in BoundLicenses(devices[req[w].row].device_id) :
                  i \in DOMAIN licenses /\ IsOverdue(licenses[i], now))
           => pc'[w] # "val_touch"]_vars

\* A step in which worker w loads license i and checks it (activate or validate).
ChecksLicense(w, i) ==
    \/ \E key \in Keys, dev \in DeviceIds : ActLookupLicense(w, key, dev) /\ i \in LicensesByKey(key)
    \/ ValLookupLicense(w) /\ req[w].lic = i

\* A step in which worker w commits the lazy expiry of license i.
ExpiresLicense(w, i) == (ActExpire(w) \/ ValExpire(w)) /\ req[w].lic = i

\* What both forms of C4 say of the first call against an active, overdue license:
\* it goes on to persist status = expired and fails with "License has expired",
\* leaving revoked_at and the audit log alone.
C4_FirstCall(w, i) ==
    /\ (ChecksLicense(w, i) /\ licenses[i].status = "active" /\ IsOverdue(licenses[i], now))
       => (pc'[w] \in {"act_expire", "val_expire"} /\ req'[w].lic = i)
    /\ ExpiresLicense(w, i)
       => /\ licenses'[i].status = "expired"
          /\ licenses'[i].revoked_at = licenses[i].revoked_at
          /\ audit' = audit
          /\ pc'[w] = "idle" /\ resp'.code = 400 /\ resp'.error = "License has expired"

C5_BoundElsewhereNoChange ==
    [][\A w \in Workers :
        (/\ pc[w] \in {"act_expire", "act_device", "act_insert", "act_respond"}
         /\ req[w].bound \ {req[w].lic} # {}
         /\ Activate(w))
        => /\ UNCHANGED <<licenses, devices, audit>>
           /\ pc'[w] = "idle" => resp'.token = None]_vars

\* The "license_activated" audit rows for device d and license i.
ActivationLogs(d, i) ==
    {k \in DOMAIN audit : /\ audit[k].action = "license_activated"
                          /\ audit[k].device_id = d /\ audit[k].license_id = i}

\* C6: Activation is idempotent.  A repeated activate for a device and license for
\* which a token had already been returned succeeds with a token that verifies, and
\* there is exactly one devices row for the device and exactly one
\* "license_activated" audit row for the pair.
C6_Idempotent ==
    [][\A w \in Workers :
        (ActLookupDevice(w) /\ req[w].activated)
        => /\ pc'[w] = "idle" /\ resp'.code = 200 /\ resp'.token # None
           /\ [ok |-> TRUE, user_id |-> req[w].dev, license_id |-> req[w].lic]
                 \in JwtDecode(resp'.token[1], SecretKey, now)
           /\ Cardinality(DevicesById(req[w].dev)) = 1
           /\ Cardinality(ActivationLogs(req[w].dev, req[w].lic)) = 1]_vars

\* C7: License status only moves forward.  No step of create, activate or validate
\* changes a status other than from active to expired or revoked.
C7_StatusForward ==
    [][(~ \E r \in DOMAIN licenses : Revoke(r))
        => \A i \in DOMAIN licenses :
              \/ licenses'[i].status = licenses[i].status
              \/ licenses[i].status = "active" /\ licenses'[i].status \in {"expired", "revoked"}]_vars

C9_TokenRoundTrip ==
    [][\A w \in Workers :
        (/\ ActLookupDevice(w) \/ ActRespond(w)
         /\ pc'[w] = "idle"
         /\ resp'.token # None)
        => \A t \in now .. (MaxTime + JWT_ACCESS_TOKEN_EXPIRES + 1) :
              /\ t < now + JWT_ACCESS_TOKEN_EXPIRES
                 => JwtRequired(resp'.token, t) =
                       {[ok |-> TRUE, user_id |-> req[w].dev, license_id |-> req[w].lic]}
              /\ t > now + JWT_ACCESS_TOKEN_EXPIRES
                 => JwtRequired(resp'.token, t) = {[ok |-> FALSE, error |-> "Token has expired"]}]_vars

\* An activate call has returned a token, and its validity window has since elapsed.
C9_Witness ==
    /\ resp.op = "activate" /\ resp.token # None
    /\ now > resp.token[1].exp

\* C10: Bindings are permanent.  No step removes a devices row or changes its device
\* identifier or its license reference.
C10_BindingPermanent ==
    [][\A j \in DOMAIN devices :
        /\ j \in DOMAIN devices'
        /\ devices'[j].device_id = devices[j].device_id
        /\ devices'[j].license_id = devices[j].license_id]_vars

\* A bound device has been validated, and an activate call for it under another
\* license has just been refused.
C10_Witness ==
    /\ resp.error = "Device already registered with different license"
    /\ \E j \in DOMAIN devices : devices[j].last_validated # None

\* C11: validate reports a token problem as one of three distinct failures, decided
\* before any store access: no Authorization token gives "Token is missing", a
\* properly signed token past its expiry gives "Token has expired", a malformed or
\* wrongly signed token gives "Token is invalid"; in all three cases the call ends
\* there with 401 and the licenses, devices and audit tables are unchanged.
C11_TokenFailures ==
    [][\A w \in Workers, header \in Headers :
        ValLookupDevice(w, header) =>
          /\ header = None => resp' = Error("validate", 401, "Token is missing", None)
          /\ (header # None /\ header[1].sig # SecretKey)
                => resp' = Error("validate", 401, "Token is invalid", None)
          /\ (header # None /\ header[1].sig = SecretKey /\ header[1].exp < now)
                => resp' = Error("validate", 401, "Token has expired", None)
          /\ (header = None \/ header[1].sig # SecretKey \/ header[1].exp < now)
                => /\ pc'[w] = "idle"
                   /\ UNCHANGED <<licenses, devices, audit>>
          /\ (header # None /\ header[1].sig = SecretKey /\ header[1].exp > now)
                => resp'.code # 401 \/ pc'[w] # "idle"]_vars

\* A validate call has been refused for an expired token while a device is bound.
C11_Witness ==
    /\ resp = Error("validate", 401, "Token has expired", None)
    /\ devices # <<>>
    /\ \E t \in issued : t.exp < now

\* C12: A device record's last_validated is set to the current time by the write of
\* every validate call that goes on to answer valid = true, and by nothing else: a
\* validate call that fails (token failure, device or license not found, license not
\* active or expired, internal error) has not written it, and no step of activate
\* writes it; a newly bound device has none.
C12_LastValidated ==
    [][/\ \A w \in Workers :
            /\ ValTouch(w) =>
                  /\ devices'[req[w].row].last_validated = Some(now)
                  /\ \A j \in DOMAIN devices \ {req[w].row} :
                        devices'[j].last_validated = devices[j].last_validated
            /\ (pc[w] # "idle" /\ pc'[w] = "idle" /\ resp'.op = "validate") =>
                  IF pc[w] = "val_respond"
                  THEN /\ resp'.valid
                       /\ devices[req[w].row].last_validated # None
                       /\ devices[req[w].row].last_validated[1] <= now
                  ELSE ~resp'.valid /\ devices' = devices
       /\ (~ \E w \in Workers : ValTouch(w)) =>
            /\ \A j \in DOMAIN devices :
                  devices'[j].last_validated = devices[j].last_validated
            /\ \A j \in DOMAIN devices' \ DOMAIN devices :
                  devices'[j].last_validated = None]_vars

\* A device validated at hour 18 keeps that timestamp through a later validate call
\* that is refused.
C12_Witness ==
    /\ \E j \in DOMAIN devices : devices[j].last_validated = Some(TickStep)
    /\ now > TickStep
    /\ resp.op = "validate" /\ resp.code = 400

\* C13: An activate or validate call that ends with an internal error has written
\* nothing: the step on which its commit fails leaves the licenses, devices and audit
\* tables as they were, a call that has committed does not end with an internal error,
\* and every step adds a device row exactly when it adds an audit entry.
C13_AtomicUnderFailure ==
    [][/\ \A w \in Workers :
            /\ (pc[w] # "idle" /\ pc'[w] = "idle" /\ resp'.code = 500
                    /\ resp'.op \in {"activate", "validate"})
                  => /\ UNCHANGED <<licenses, devices, audit>>
                     /\ pc[w] \in {"act_expire", "act_insert", "val_expire", "val_touch"}
            /\ (pc[w] \in {"act_respond", "val_respond"} /\ pc'[w] = "idle")
                  => resp'.code = 200
       /\ (Len(devices') = Len(devices) + 1) <=> (Len(audit') = Len(audit) + 1)
       /\ Len(devices') \in {Len(devices), Len(devices) + 1}
       /\ Len(audit') \in {Len(audit), Len(audit) + 1}]_vars

\* An activation of the only license, active and not overdue, has ended with an
\* internal error, and there is neither a device row nor an audit entry.
C13_Witness ==
    /\ resp = Error("activate", 500, "Internal server error", None)
    /\ Len(licenses) = 1 /\ licenses[1].status = "active" /\ now = 0
    /\ devices = <<>> /\ audit = <<>>

\* C14: The audit log is append-only and matches the bindings: every step leaves the
\* existing audit entries in place and unaltered, and in every reachable state each
\* Device record (D, L) has exactly one "license_activated" audit entry for (D, L)
\* and each such audit entry has a Device record (D, L).
C14_AuditMatchesBindings ==
    /\ [](/\ \A j \in DOMAIN devices :
              Cardinality(ActivationLogs(devices[j].device_id, devices[j].license_id)) = 1
          /\ \A k \in DOMAIN audit :
              audit[k].action = "license_activated" =>
                \E j \in DOMAIN devices :
                    /\ devices[j].device_id = audit[k].device_id
                    /\ devices[j].license_id = audit[k].license_id)
    /\ [][/\ Len(audit') >= Len(audit)
          /\ \A k \in DOMAIN audit : audit'[k] = audit[k]]_vars

\* C15: License keys stay unique.  A create call that finds its key taken, when it
\* checks or when it inserts, fails with "License key already exists" and leaves the
\* licenses table unchanged; a create call whose key is new adds exactly one license,
\* with status active and expires_at the time of the call plus the duration; and in
\* every reachable state no two license rows share a key.
C15_UniqueKeys ==
    /\ [](\A i \in DOMAIN licenses, j \in DOMAIN licenses :
              licenses[i].key = licenses[j].key => i = j)
    /\ [][\A w \in Workers :
            /\ \A key \in Keys, d \in Durations :
                  (CreateCheck(w, key, d) /\ LicensesByKey(key) # {}) =>
                     /\ resp' = Error("create", 302, "License key already exists", None)
                     /\ pc'[w] = "idle"
                     /\ licenses' = licenses
            /\ CreateInsert(w) =>
                  IF LicensesByKey(req[w].key) # {}
                  THEN /\ resp' = Error("create", 302, "License key already exists", None)
                       /\ licenses' = licenses
                  ELSE /\ resp' = Created
                       /\ licenses' = Append(licenses,
                              License(req[w].key, "active", Some(req[w].expires_at)))]_vars

\* C16: On every successful validate, days_remaining is null when the license has no
\* expires_at, and otherwise is the floor of (expires_at - current time) in days: the
\* integer q with q days <= expires_at - now < q + 1 days.  For a license expiring
\* seven days after hour 0 and validated within the first day, that is 6 or 7.
C16_DaysRemainingFloor ==
    [][\A w \in Workers :
        ValRespond(w) =>
          LET lic == licenses[req[w].lic] IN
          /\ resp'.valid
          /\ lic.expires_at = None => resp'.days_remaining = None
          /\ lic.expires_at # None =>
                /\ resp'.days_remaining # None
                /\ resp'.days_remaining[1] * HoursPerDay <= lic.expires_at[1] - now
                /\ lic.expires_at[1] - now < (resp'.days_remaining[1] + 1) * HoursPerDay
          /\ (lic.expires_at = Some(7 * HoursPerDay) /\ now < HoursPerDay) =>
                resp'.days_remaining \in {Some(6), Some(7)}]_vars

\* A license expiring in seven days less 18 hours has been reported with 6 days.
C16_Witness ==
    /\ resp.valid /\ resp.days_remaining = Some(6)
    /\ licenses[1].expires_at = Some(7 * HoursPerDay) /\ now = TickStep

\* A license without expires_at has been reported with days_remaining null.
C16_WitnessNull ==
    /\ resp.valid /\ resp.days_remaining = None
    /\ licenses[1].expires_at = None

\* C17: Push-notification failures are reported as values: every call of
\* send_notification_to_device and of the revocation, expiry and admin helpers
\* returns True or False and never raises, it returns False when the sender is not
\* initialised, when no push address was found for the device, and when the delivery
\* call raises UnregisteredError or anything else, and it changes nothing in the
\* store, in the requests in progress or in their responses.
C17_NotifyNeverRaises ==
    [][firebase_service' # firebase_service =>
        LET c == firebase_service'.call[1] IN
        /\ firebase_service'.returned \in {"True", "False"}
        /\ (~firebase_service.app \/ c.fcm_token = None \/ c.send # "sent")
              => firebase_service'.returned = "False"
        /\ UNCHANGED <<licenses, devices, audit, pc, req, resp>>]_vars

\* The revocation helper has returned False after the delivery call raised.
C17_Witness ==
    /\ firebase_service.app
    /\ firebase_service.call # None
    /\ firebase_service.call[1].fn = "send_license_revocation_notification"
    /\ firebase_service.call[1].send = "Exception"
    /\ firebase_service.returned = "False"

\* C18: activate evaluates its failure conditions in a fixed order and the first one
\* that holds decides the result: unknown key ("Invalid license key"), then status not
\* active ("License is not active"), then overdue ("License has expired"), then device
\* bound to another license ("Device already registered with different license");
\* only when none holds is a binding created or reused and a token issued.  The
\* status and expiry of the license decide before the device is looked at.
C18_FailureOrder ==
    [][\A w \in Workers :
        /\ \A key \in Keys, dev \in DeviceIds :
              ActLookupLicense(w, key, dev) =>
                IF LicensesByKey(key) = {}
                THEN resp' = Error("activate", 404, "Invalid license key", None)
                ELSE \A i \in LicensesByKey(key) :
                     IF licenses[i].status # "active"
                     THEN resp' = Error("activate", 400, "License is not active", None)
                     ELSE IF IsOverdue(licenses[i], now)
                     THEN pc'[w] = "act_expire"
                     ELSE pc'[w] = "act_device"
        /\ ActExpire(w) => resp' = Error("activate", 400, "License has expired", None)
        /\ ActLookupDevice(w) =>
              IF BoundLicenses(req[w].dev) \ {req[w].lic} # {}
              THEN /\ pc'[w] = "idle"
                   /\ resp' = Error("activate", 400,
                                    "Device already registered with different license", None)
              ELSE pc'[w] = "act_insert" \/ resp'.token # None]_vars

\* C19: Every token issued by activate stays resolvable: in every reachable state,
\* for each token returned by activate with subject D and license L there is a
\* Device record for D bound to L and a License L; and no validate call has failed
\* with "Device not found" or "License not found".
C19_TokensResolvable ==
    /\ \A t \in issued :
          /\ \E j \in DevicesById(t.user_id) : devices[j].license_id = t.license_id
          /\ t.license_id \in DOMAIN licenses
    /\ resp.op = "validate" => resp.error \notin {"Device not found", "License not found"}

\* A token issued at hour 0 has been validated at hour 18, after a second token was
\* issued.
C19_Witness ==
    /\ Cardinality(issued) >= 2
    /\ \E t \in issued : t.exp = JWT_ACCESS_TOKEN_EXPIRES
    /\ now = TickStep
    /\ resp.op = "validate" /\ resp.valid

\* C20: Every validate call that returns valid = true for a license with an expiry
\* reports days_remaining >= 0, also when the clock advances between the call's
\* expiry check and its computation of days_remaining.
C20_DaysRemainingNonNegative ==
    (resp.valid /\ resp.days_remaining # None) => resp.days_remaining[1] >= 0
====
